---- MODULE Spec2Model ----
(***************************************************************************)
(* Rental-shop order management (src/app.py): the relational store, the    *)
(* order handlers (create_order, edit_order, staff_edit_order,             *)
(* add_products_to_order, update_order_status), the catalog handlers       *)
(* (add_product, edit_product) and the booking-conflict query.             *)
(*                                                                         *)
(* Encoding of request data:                                               *)
(*   - a date is a day number;                                             *)
(*   - a product_id[] entry is a product id, or 0 for the empty string     *)
(*     that `if pid:` skips;                                               *)
(*   - an extra_amount[] entry is <<>> for the empty string and <<n>> for  *)
(*     the text of the number n; amounts are whole currency units;         *)
(*   - free-text fields that are copied verbatim and never read            *)
(*     (secondary_phone, email, address, notes, remarks) are left out;     *)
(*     customer_name stands for them.                                      *)
(* A handler that raises (HTTP 500) never reaches db.session.commit(), so  *)
(* the store is left as it was.                                            *)
(***************************************************************************)
EXTENDS Integers, Sequences, FiniteSets, TLC

\* ------------------------------------------------------------------ bounds
MaxProducts == 2      \* products the catalog may hold
MaxOrders   == 2      \* orders the store may hold
MaxDate     == 2      \* dates are 1..MaxDate
MaxPids     == 2      \* length of a request's product_id[] list

Dates == 1..MaxDate

\* ------------------------------------------------------------------ users
\* init_db creates the admin (id 1); accounts 2 and 3 are staff (add_staff).
Users == {1, 2, 3}
Role == [u \in Users |-> IF u = 1 THEN "admin" ELSE "staff"]

\* ------------------------------------------------------------------ state
VARIABLES
    products,    \* Product rows, id = index
    customers,   \* Customer rows, id = index
    orders,      \* Order rows with their children, id = index
    invoices,    \* Invoice rows, id = index
    inflight,    \* create_order requests between their check and their commit
    resp         \* the last request and its response

db == <<products, customers, orders, invoices>>
vars == <<products, customers, orders, invoices, inflight, resp>>

\* a status filter that forgot 'approved'
ActiveStatusesPendingOnly == {"pending"}

\* a status filter that also takes canceled, returned and completed orders
ActiveStatusesWithClosed == {"pending", "approved", "canceled", "returned", "completed"}

\* Order.status values that hold a reservation (the in_() list of the queries)
ActiveStatuses == {"pending", "approved"}

\* ------------------------------------------------------------------ forms
SeqsUpTo(S, n) == UNION {[1..k -> S] : k \in 0..n}

\* What the caller sees of a request: the handler, the acting user, the
\* order (or product) it addressed or created, how it ended and the
\* product ids its "already booked" flash messages named.
Response(op, u, oid, outcome, flashed) ==
    [op |-> op, user |-> u, oid |-> oid, outcome |-> outcome, flashed |-> flashed]

\* ------------------------------------------------------------------ helpers
RECURSIVE SumSeq(_)
SumSeq(s) == IF s = <<>> THEN 0 ELSE Head(s) + SumSeq(Tail(s))

ProductExists(pid) == pid \in DOMAIN products

\* a date filter without its third case (existing range inside the request)
DateCondNoInside(D, R, d, r) ==
    \/ (D <= d /\ R >= d)
    \/ (D <= r /\ R >= r)

\* The date part of the duplicate-booking filter: existing order [D, R]
\* against the requested range [d, r].
DateCond(D, R, d, r) ==
    \/ (D <= d /\ R >= d)
    \/ (D <= r /\ R >= r)
    \/ (D >= d /\ R <= r)

HoldsProduct(o, pid) ==
    \E i \in DOMAIN orders[o].items : orders[o].items[i].product_id = pid

\* Orders a row of the duplicate-booking query can belong to
\* (OrderItem JOIN Order, filtered on product, status and dates).
Booked(pid, d, r) ==
    {o \in DOMAIN orders :
        /\ HoldsProduct(o, pid)
        /\ orders[o].status \in ActiveStatuses
        /\ DateCond(orders[o].delivery_date, orders[o].return_date, d, r)}

\* The product create_order's check loop stops at: the first non-empty
\* entry of product_id[] with a booked row; 0 when the loop runs through.
FirstConflict(pids, d, r) ==
    LET hit == {i \in DOMAIN pids : pids[i] # 0 /\ Booked(pids[i], d, r) # {}}
    IN IF hit = {} THEN 0
       ELSE pids[CHOOSE i \in hit : \A j \in hit : i <= j]

\* a line-item price that takes the deposit in
ItemPriceWithDeposit(pid) == products[pid].rental_price + products[pid].deposit_amount

\* price given to a new line item
ItemPrice(pid) == products[pid].rental_price

\* The line items the "add products" loop of create_order / edit_order /
\* staff_edit_order builds: one per non-empty pid whose product exists.
NewItems(pids) ==
    LET Keep(p) == p # 0 /\ ProductExists(p)
        kept == SelectSeq(pids, Keep)
    IN [i \in DOMAIN kept |-> [product_id |-> kept[i], price |-> ItemPrice(kept[i])]]

\* The accessory rows: one per non-empty name.
NewAccessories(names) ==
    LET Keep(n) == n # ""
    IN SelectSeq(names, Keep)

\* extra_amounts[i] raises IndexError when a non-empty description has no
\* amount entry at its index.
ExtraRaises(f) ==
    \E i \in DOMAIN f.extra_desc :
        f.extra_desc[i] # "" /\ i \notin DOMAIN f.extra_amounts

\* The extra-charge rows: one per non-empty description with a non-empty amount.
NewExtras(f) ==
    LET idx == {i \in DOMAIN f.extra_desc :
                   f.extra_desc[i] # "" /\ f.extra_amounts[i] # <<>>}
        RECURSIVE Build(_)
        Build(i) == IF i > Len(f.extra_desc) THEN <<>>
                    ELSE IF i \in idx
                         THEN <<[description |-> f.extra_desc[i],
                                 amount |-> f.extra_amounts[i][1]]>> \o Build(i + 1)
                         ELSE Build(i + 1)
    IN Build(1)

ItemPrices(items) == [i \in DOMAIN items |-> items[i].price]
ExtraAmounts(extras) == [i \in DOMAIN extras |-> extras[i].amount]

\* a total that leaves the extra charges out
OrderTotalNoExtras(items, extras) == SumSeq(ItemPrices(items))

\* `total` as the handlers accumulate it
OrderTotal(items, extras) == SumSeq(ItemPrices(items)) + SumSeq(ExtraAmounts(extras))

\* a numbering that forgets the + 1
generate_invoice_number_no_increment == Len(invoices)

\* Invoice.query.count() + 1; the INV-%05d text is the number itself
generate_invoice_number == Len(invoices) + 1

\* ------------------------------------------------------------------ init
Init ==
    /\ products = <<>>
    /\ customers = <<>>
    /\ orders = <<>>
    /\ invoices = <<>>
    /\ inflight = {}
    /\ resp = Response("init", 1, 0, "ok", {})

\* ------------------------------------------------------------------ catalog
add_product(u, code, price, deposit) ==
    /\ Len(products) < MaxProducts
    /\ IF Role[u] # "admin"
       THEN /\ resp' = Response("add_product", u, 0, "forbidden", {})
            /\ UNCHANGED <<db, inflight>>
       ELSE IF \E p \in DOMAIN products : products[p].product_code = code
       THEN /\ resp' = Response("add_product", u, 0, "duplicate", {})
            /\ UNCHANGED <<db, inflight>>
       ELSE /\ products' = Append(products,
                   [product_code |-> code, rental_price |-> price,
                    deposit_amount |-> deposit, is_active |-> TRUE])
            /\ resp' = Response("add_product", u, 0, "ok", {})
            /\ UNCHANGED <<customers, orders, invoices, inflight>>

\* ------------------------------------------------------------------ orders
\* Lines 620-703 of create_order: customer upsert, order, children, total,
\* invoice, commit.  cid is the customer row .first() returned, 0 for none.
CreateOrderWrites(u, f, cid) ==
    LET newc  == [name |-> f.customer_name, phone |-> f.customer_phone]
        cust  == IF cid = 0 THEN Len(customers) + 1 ELSE cid
        items == NewItems(f.product_ids)
        extras == NewExtras(f)
        order == [customer_id |-> cust, staff_id |-> u,
                  delivery_date |-> f.delivery_date, return_date |-> f.return_date,
                  status |-> "pending",
                  total_amount |-> OrderTotal(items, extras),
                  items |-> items,
                  accessories |-> NewAccessories(f.accessory_names),
                  extra_charges |-> extras]
    IN /\ customers' = IF cid = 0 THEN Append(customers, newc)
                       ELSE [customers EXCEPT ![cid].name = f.customer_name]
       /\ orders' = Append(orders, order)
       /\ invoices' = Append(invoices,
              [invoice_number |-> generate_invoice_number, order_id |-> Len(orders) + 1])
       /\ UNCHANGED products

\* Customer.query.filter_by(phone=...).first(): a row with that phone, 0 for None
CustomerByPhone(phone) ==
    IF \E c \in DOMAIN customers : customers[c].phone = phone
    THEN {c \in DOMAIN customers : customers[c].phone = phone}
    ELSE {0}

create_order(u, f) ==
    /\ Len(orders) < MaxOrders
    /\ LET c == FirstConflict(f.product_ids, f.delivery_date, f.return_date)
       IN IF c # 0
          THEN /\ resp' = Response("create_order", u, 0, "conflict", {c})
               /\ UNCHANGED <<db, inflight>>
          ELSE IF ExtraRaises(f)
          THEN /\ resp' = Response("create_order", u, 0, "error", {})
               /\ UNCHANGED <<db, inflight>>
          ELSE /\ \E cid \in CustomerByPhone(f.customer_phone) :
                      CreateOrderWrites(u, f, cid)
               /\ resp' = Response("create_order", u, Len(orders) + 1, "ok", {})
               /\ UNCHANGED inflight

\* Lines 602-618 of create_order alone (the duplicate-booking check), for a
\* request that runs beside others: a request that passes is in flight
\* until its commit.
create_order_check(k, u, f) ==
    /\ \A r \in inflight : r.req # k
    /\ LET c == FirstConflict(f.product_ids, f.delivery_date, f.return_date)
       IN IF c # 0
          THEN /\ resp' = Response("create_order", u, 0, "conflict", {c})
               /\ UNCHANGED <<db, inflight>>
          ELSE /\ inflight' = inflight \cup {[req |-> k, user |-> u, form |-> f]}
               /\ resp' = Response("create_order_check", u, 0, "passed", {})
               /\ UNCHANGED db

\* Lines 620-703 of create_order for a request in flight.
create_order_commit(r) ==
    /\ r \in inflight
    /\ Len(orders) < MaxOrders
    /\ inflight' = inflight \ {r}
    /\ IF ExtraRaises(r.form)
       THEN /\ resp' = Response("create_order", r.user, 0, "error", {})
            /\ UNCHANGED db
       ELSE /\ \E cid \in CustomerByPhone(r.form.customer_phone) :
                   CreateOrderWrites(r.user, r.form, cid)
            /\ resp' = Response("create_order", r.user, Len(orders) + 1, "ok", {})

\* a status update that refuses to reopen a canceled or completed order
update_order_status_terminal(u, oid, status) ==
    /\ oid \in DOMAIN orders
    /\ orders[oid].status \notin {"canceled", "completed"}
    /\ orders' = [orders EXCEPT ![oid].status = status]
    /\ resp' = Response("update_order_status", u, oid, "ok", {})
    /\ UNCHANGED <<products, customers, invoices, inflight>>

update_order_status(u, oid, status) ==
    IF Role[u] # "admin"
    THEN /\ resp' = Response("update_order_status", u, oid, "forbidden", {})
         /\ UNCHANGED <<db, inflight>>
    ELSE IF oid \notin DOMAIN orders
    THEN /\ resp' = Response("update_order_status", u, oid, "not_found", {})
         /\ UNCHANGED <<db, inflight>>
    ELSE /\ orders' = [orders EXCEPT ![oid].status = status]
         /\ resp' = Response("update_order_status", u, oid, "ok", {})
         /\ UNCHANGED <<products, customers, invoices, inflight>>

\* an edit that forgot to delete the old line items
EditWritesKeepsItems(oid, f) ==
    LET items == orders[oid].items \o NewItems(f.product_ids)
        extras == NewExtras(f)
        cid == orders[oid].customer_id
    IN /\ customers' = [customers EXCEPT ![cid].name = f.customer_name,
                                         ![cid].phone = f.customer_phone]
       /\ orders' = [orders EXCEPT
              ![oid].delivery_date = f.delivery_date,
              ![oid].return_date = f.return_date,
              ![oid].items = items,
              ![oid].accessories = NewAccessories(f.accessory_names),
              ![oid].extra_charges = extras,
              ![oid].total_amount = OrderTotal(items, extras)]
       /\ UNCHANGED <<products, invoices>>

\* The POST body shared by edit_order (lines 516-578) and staff_edit_order
\* (lines 836-897): customer fields, dates, children deleted and re-inserted,
\* total, commit.
EditWrites(oid, f) ==
    LET items == NewItems(f.product_ids)
        extras == NewExtras(f)
        cid == orders[oid].customer_id
    IN /\ customers' = [customers EXCEPT ![cid].name = f.customer_name,
                                         ![cid].phone = f.customer_phone]
       /\ orders' = [orders EXCEPT
              ![oid].delivery_date = f.delivery_date,
              ![oid].return_date = f.return_date,
              ![oid].items = items,
              ![oid].accessories = NewAccessories(f.accessory_names),
              ![oid].extra_charges = extras,
              ![oid].total_amount = OrderTotal(items, extras)]
       /\ UNCHANGED <<products, invoices>>

\* an edit that puts the order it saves back to pending
edit_order_resets_status(u, oid, f) ==
    /\ oid \in DOMAIN orders
    /\ orders' = [orders EXCEPT ![oid].status = "pending"]
    /\ resp' = Response("edit_order", u, oid, "ok", {})
    /\ UNCHANGED <<products, customers, invoices, inflight>>

edit_order(u, oid, f) ==
    IF Role[u] # "admin"
    THEN /\ resp' = Response("edit_order", u, oid, "forbidden", {})
         /\ UNCHANGED <<db, inflight>>
    ELSE IF oid \notin DOMAIN orders
    THEN /\ resp' = Response("edit_order", u, oid, "not_found", {})
         /\ UNCHANGED <<db, inflight>>
    ELSE IF ExtraRaises(f)
    THEN /\ resp' = Response("edit_order", u, oid, "error", {})
         /\ UNCHANGED <<db, inflight>>
    ELSE /\ EditWrites(oid, f)
         /\ resp' = Response("edit_order", u, oid, "ok", {})
         /\ UNCHANGED inflight

\* guards that forgot the owner
StaffMayEditAnyPending(u, oid) == orders[oid].status = "pending"

\* The three guards of staff_edit_order (lines 824-834)
StaffMayEdit(u, oid) ==
    /\ orders[oid].staff_id = u
    /\ Role[orders[oid].staff_id] # "admin"
    /\ orders[oid].status = "pending"

staff_edit_order(u, oid, f) ==
    IF oid \notin DOMAIN orders
    THEN /\ resp' = Response("staff_edit_order", u, oid, "not_found", {})
         /\ UNCHANGED <<db, inflight>>
    ELSE IF ~StaffMayEdit(u, oid)
    THEN /\ resp' = Response("staff_edit_order", u, oid, "forbidden", {})
         /\ UNCHANGED <<db, inflight>>
    ELSE IF ExtraRaises(f)
    THEN /\ resp' = Response("staff_edit_order", u, oid, "error", {})
         /\ UNCHANGED <<db, inflight>>
    ELSE /\ EditWrites(oid, f)
         /\ resp' = Response("staff_edit_order", u, oid, "ok", {})
         /\ UNCHANGED inflight

\* The guards of add_products_to_order (lines 726-736)
MayAddProducts(u, oid) ==
    /\ Role[u] = "staff" =>
          /\ orders[oid].staff_id = u
          /\ Role[orders[oid].staff_id] # "admin"
    /\ orders[oid].status = "pending"

\* The loop of add_products_to_order (lines 741-766) over product_id[],
\* started with the order's items and total.  The session autoflushes, so
\* each query sees the items added so far.  `existing` is whichever row
\* .first() returns: when the order itself holds pid its own row matches the
\* filter too, and the "already booked" flash then depends on the row
\* returned (may), otherwise on a row of another order existing (must).
\* Product.query.get of an unknown id is None and product.id raises.
RECURSIVE AddLoop(_, _, _, _)
AddLoop(oid, pids, items, total) ==
    IF pids = <<>>
    THEN [items |-> items, total |-> total, must |-> {}, may |-> {}, raises |-> FALSE]
    ELSE LET pid == Head(pids)
             own == \E i \in DOMAIN items : items[i].product_id = pid
             others == Booked(pid, orders[oid].delivery_date, orders[oid].return_date)
                          \ {oid}
         IN IF pid = 0 THEN AddLoop(oid, Tail(pids), items, total)
            ELSE IF own
            THEN LET rest == AddLoop(oid, Tail(pids), items, total)
                 IN [rest EXCEPT !.may = IF others # {} THEN @ \cup {pid} ELSE @]
            ELSE IF others # {}
            THEN LET rest == AddLoop(oid, Tail(pids), items, total)
                 IN [rest EXCEPT !.must = @ \cup {pid}]
            ELSE IF ~ProductExists(pid)
            THEN [items |-> items, total |-> total, must |-> {}, may |-> {},
                  raises |-> TRUE]
            ELSE AddLoop(oid, Tail(pids),
                         Append(items, [product_id |-> pid, price |-> ItemPrice(pid)]),
                         total + ItemPrice(pid))

add_products_to_order(u, oid, pids) ==
    IF oid \notin DOMAIN orders
    THEN /\ resp' = Response("add_products_to_order", u, oid, "not_found", {})
         /\ UNCHANGED <<db, inflight>>
    ELSE IF ~MayAddProducts(u, oid)
    THEN /\ resp' = Response("add_products_to_order", u, oid, "forbidden", {})
         /\ UNCHANGED <<db, inflight>>
    ELSE LET res == AddLoop(oid, pids, orders[oid].items, orders[oid].total_amount)
         IN IF res.raises
            THEN /\ resp' = Response("add_products_to_order", u, oid, "error", {})
                 /\ UNCHANGED <<db, inflight>>
            ELSE /\ orders' = [orders EXCEPT ![oid].items = res.items,
                                             ![oid].total_amount = res.total]
                 /\ \E opt \in SUBSET res.may :
                       resp' = Response("add_products_to_order", u, oid, "ok",
                                        res.must \cup opt)
                 /\ UNCHANGED <<products, customers, invoices, inflight>>

edit_product(u, pid, code, price, deposit) ==
    IF Role[u] # "admin"
    THEN /\ resp' = Response("edit_product", u, pid, "forbidden", {})
         /\ UNCHANGED <<db, inflight>>
    ELSE IF ~ProductExists(pid)
    THEN /\ resp' = Response("edit_product", u, pid, "not_found", {})
         /\ UNCHANGED <<db, inflight>>
    ELSE IF \E q \in DOMAIN products : q # pid /\ products[q].product_code = code
    THEN \* product_code is unique: the commit raises IntegrityError
         /\ resp' = Response("edit_product", u, pid, "error", {})
         /\ UNCHANGED <<db, inflight>>
    ELSE /\ products' = [products EXCEPT ![pid].product_code = code,
                                         ![pid].rental_price = price,
                                         ![pid].deposit_amount = deposit]
         /\ resp' = Response("edit_product", u, pid, "ok", {})
         /\ UNCHANGED <<customers, orders, invoices, inflight>>

\* an invoice lookup that never finds the order's row
InvoiceByOrderNone(oid) == {0}

\* Invoice.query.filter_by(order_id=...).first(): a row of that order, 0 for None
InvoiceByOrder(oid) ==
    IF \E i \in DOMAIN invoices : invoices[i].order_id = oid
    THEN {i \in DOMAIN invoices : invoices[i].order_id = oid}
    ELSE {0}

\* What the caller of view_invoice sees: the response and the number of the
\* invoice the page is rendered with.
ViewResponse(u, oid, number) ==
    [op |-> "view_invoice", user |-> u, oid |-> oid, outcome |-> "ok",
     flashed |-> {}, invoice_number |-> number]

\* Any logged-in user may view any order's invoice.
view_invoice(u, oid) ==
    IF oid \notin DOMAIN orders
    THEN /\ resp' = Response("view_invoice", u, oid, "not_found", {})
         /\ UNCHANGED <<db, inflight>>
    ELSE \E i \in InvoiceByOrder(oid) :
            IF i = 0
            THEN /\ invoices' = Append(invoices,
                        [invoice_number |-> generate_invoice_number, order_id |-> oid])
                 /\ resp' = ViewResponse(u, oid, generate_invoice_number)
                 /\ UNCHANGED <<products, customers, orders, inflight>>
            ELSE /\ resp' = ViewResponse(u, oid, invoices[i].invoice_number)
                 /\ UNCHANGED <<db, inflight>>


\* --------------------------------------------------- create_order, stepwise
\* create_order between its check and its commit, one write at a time.  A
\* request in flight carries the view of its database session (tx): the
\* committed rows plus the rows it added or changed.
\* a flush that commits
FlushCommits(committed, session) == session

\* db.session.add / db.session.flush (lines 630-631, 648-649): the rows go
\* to the database inside the open transaction; the committed table stays.
Flush(committed, session) == committed

\* the statements of lines 620-703 in order, db.session.commit() last
NextPc ==
    [customer |-> "order", order |-> "children", children |-> "invoice",
     invoice |-> "commit"]

\* Customer.query.filter_by(phone=...).first() inside the session
TxCustomerByPhone(tx, phone) ==
    IF \E c \in DOMAIN tx.customers : tx.customers[c].phone = phone
    THEN {c \in DOMAIN tx.customers : tx.customers[c].phone = phone}
    ELSE {0}

\* The session after the statement at r.pc; cid is the customer row
\* .first() returned (read at "customer" only).
TxWrite(r, cid) ==
    LET f == r.form
        tx == r.tx
        o == Len(tx.orders)
    IN CASE r.pc = "customer" ->
              [tx EXCEPT !.customers =
                  IF cid = 0
                  THEN Append(@, [name |-> f.customer_name, phone |-> f.customer_phone])
                  ELSE [@ EXCEPT ![cid].name = f.customer_name]]
         [] r.pc = "order" ->
              [tx EXCEPT !.orders =
                  Append(@, [customer_id |-> r.cust, staff_id |-> r.user,
                             delivery_date |-> f.delivery_date,
                             return_date |-> f.return_date,
                             status |-> "pending", total_amount |-> 0,
                             items |-> <<>>, accessories |-> <<>>,
                             extra_charges |-> <<>>])]
         [] r.pc = "children" ->
              [tx EXCEPT !.orders[o].items = NewItems(f.product_ids),
                         !.orders[o].accessories = NewAccessories(f.accessory_names),
                         !.orders[o].extra_charges = NewExtras(f)]
         [] r.pc = "invoice" ->
              [tx EXCEPT !.orders[o].total_amount =
                             OrderTotal(tx.orders[o].items, tx.orders[o].extra_charges),
                         !.invoices =
                             Append(@, [invoice_number |-> Len(tx.invoices) + 1,
                                        order_id |-> o])]

\* What the caller of a create_order that raised sees (HTTP 500); `at` is
\* the statement that raised.
FailedResponse(u, at) ==
    [op |-> "create_order", user |-> u, oid |-> 0, outcome |-> "error",
     flashed |-> {}, at |-> at]

\* Lines 602-618: the check; a request that passes opens its session.
create_order_open(u, f) ==
    /\ inflight = {}
    /\ Len(orders) < MaxOrders
    /\ LET c == FirstConflict(f.product_ids, f.delivery_date, f.return_date)
       IN IF c # 0
          THEN /\ resp' = Response("create_order", u, 0, "conflict", {c})
               /\ UNCHANGED <<db, inflight>>
          ELSE /\ inflight' = {[user |-> u, form |-> f, pc |-> "customer", cust |-> 0,
                                tx |-> [customers |-> customers, orders |-> orders,
                                        invoices |-> invoices]]}
               /\ UNCHANGED <<db, resp>>

\* One statement of lines 620-701 succeeds.
create_order_step(r) ==
    /\ r \in inflight
    /\ r.pc # "commit"
    /\ ~(r.pc = "children" /\ ExtraRaises(r.form))
    /\ \E cid \in (IF r.pc = "customer"
                   THEN TxCustomerByPhone(r.tx, r.form.customer_phone)
                   ELSE {r.cust}) :
          LET tx2 == TxWrite(r, cid)
              cust == IF cid = 0 THEN Len(tx2.customers) ELSE cid
          IN /\ inflight' = {[r EXCEPT !.pc = NextPc[r.pc], !.tx = tx2, !.cust = cust]}
             /\ customers' = Flush(customers, tx2.customers)
             /\ orders' = Flush(orders, tx2.orders)
             /\ invoices' = Flush(invoices, tx2.invoices)
    /\ UNCHANGED <<products, resp>>

\* Line 703: db.session.commit() succeeds.
create_order_finish(r) ==
    /\ r \in inflight
    /\ r.pc = "commit"
    /\ inflight' = {}
    /\ customers' = r.tx.customers
    /\ orders' = r.tx.orders
    /\ invoices' = r.tx.invoices
    /\ resp' = Response("create_order", r.user, Len(r.tx.orders), "ok", {})
    /\ UNCHANGED products

\* The statement at r.pc raises (IndexError or ValueError in the extra
\* charges, IntegrityError or OperationalError from the database at a
\* flush or at the commit).  Nothing catches it: the request ends with
\* HTTP 500 and the session is removed without a commit.
create_order_raise(r) ==
    /\ r \in inflight
    /\ inflight' = {}
    /\ resp' = FailedResponse(r.user, r.pc)
    /\ UNCHANGED db


toggle_product(u, pid) ==
    IF Role[u] # "admin"
    THEN /\ resp' = Response("toggle_product", u, pid, "forbidden", {})
         /\ UNCHANGED <<db, inflight>>
    ELSE IF ~ProductExists(pid)
    THEN /\ resp' = Response("toggle_product", u, pid, "not_found", {})
         /\ UNCHANGED <<db, inflight>>
    ELSE /\ products' = [products EXCEPT ![pid].is_active = ~@]
         /\ resp' = Response("toggle_product", u, pid, "ok", {})
         /\ UNCHANGED <<customers, orders, invoices, inflight>>

\* Product.query.filter_by(product_code=...).first(): a row with that code,
\* 0 for None
ProductByCode(code) ==
    IF \E p \in DOMAIN products : products[p].product_code = code
    THEN {p \in DOMAIN products : products[p].product_code = code}
    ELSE {0}

\* a bookings query without its status filter
AvailabilityBookingsAnyStatus(pid) ==
    {o \in DOMAIN orders : HoldsProduct(o, pid)}

\* Order JOIN OrderItem filtered on the product and the status, .all(): the
\* orders of the rows, each once
AvailabilityBookings(pid) ==
    {o \in DOMAIN orders :
        HoldsProduct(o, pid) /\ orders[o].status \in ActiveStatuses}

\* booking_info of an order
BookingInfo(o) ==
    [order_id |-> o,
     delivery_date |-> orders[o].delivery_date,
     return_date |-> orders[o].return_date,
     status |-> orders[o].status,
     customer |-> customers[orders[o].customer_id].name]

\* The JSON answer of check_availability; the request body carries a
\* product_code and nothing else.
check_availability(u, code) ==
    /\ \E pid \in ProductByCode(code) :
          IF pid = 0
          THEN resp' = [op |-> "check_availability", user |-> u, code |-> code,
                        found |-> FALSE]
          ELSE LET bookings == {BookingInfo(o) : o \in AvailabilityBookings(pid)}
               IN resp' = [op |-> "check_availability", user |-> u, code |-> code,
                           found |-> TRUE, product |-> pid,
                           bookings |-> bookings,
                           is_available |-> Cardinality(bookings) = 0]
    /\ UNCHANGED <<db, inflight>>

\* ---------------------------------------------------------- amount_in_words
\* A text is the sequence of its words and of the blanks between them: ''
\* is <<>>, ' Hundred' is <<" ", "Hundred">>, and + is \o.  An amount is
\* given in whole rupees and paise (0..99); `amount == 0` holds when both
\* are 0 and int(amount) is the rupees.
ones ==
    <<"One", "Two", "Three", "Four", "Five", "Six", "Seven", "Eight", "Nine",
      "Ten", "Eleven", "Twelve", "Thirteen", "Fourteen", "Fifteen", "Sixteen",
      "Seventeen", "Eighteen", "Nineteen">>
tens ==
    <<"", "Twenty", "Thirty", "Forty", "Fifty", "Sixty", "Seventy", "Eighty",
      "Ninety">>

\* ones[n] and tens[n] of the source, whose entry 0 is ''
OnesText(n) == IF n = 0 THEN <<>> ELSE <<ones[n]>>
TensText(n) == IF n < 2 THEN <<>> ELSE <<tens[n]>>

RECURSIVE convert_less_than_thousand(_)
convert_less_than_thousand(n) ==
    IF n = 0 THEN <<>>
    ELSE IF n < 20 THEN OnesText(n)
    ELSE IF n < 100
    THEN TensText(n \div 10)
            \o (IF n % 10 # 0 THEN <<" ">> \o OnesText(n % 10) ELSE <<>>)
    ELSE OnesText(n \div 100) \o <<" ", "Hundred">>
            \o (IF n % 100 # 0
                THEN <<" ">> \o convert_less_than_thousand(n % 100) ELSE <<>>)

RECURSIVE convert(_)
convert(n) ==
    IF n < 1000 THEN convert_less_than_thousand(n)
    ELSE IF n < 100000
    THEN convert_less_than_thousand(n \div 1000) \o <<" ", "Thousand">>
            \o (IF n % 1000 # 0
                THEN <<" ">> \o convert_less_than_thousand(n % 1000) ELSE <<>>)
    ELSE IF n < 10000000
    THEN convert_less_than_thousand(n \div 100000) \o <<" ", "Lakh">>
            \o (IF n % 100000 # 0 THEN <<" ">> \o convert(n % 100000) ELSE <<>>)
    ELSE convert(n \div 10000000) \o <<" ", "Crore">>
            \o (IF n % 10000000 # 0 THEN <<" ">> \o convert(n % 10000000) ELSE <<>>)

\* a formatter without its zero case
amount_in_words_no_zero_case(amount) ==
    convert(amount.rupees) \o <<" ", "Rupees", " ", "Only">>

amount_in_words(amount) ==
    IF amount.rupees = 0 /\ amount.paise = 0
    THEN <<"Zero", " ", "Rupees", " ", "Only">>
    ELSE convert(amount.rupees) \o <<" ", "Rupees", " ", "Only">>

\* a call of amount_in_words and its return
WordsCall(amount) ==
    [op |-> "amount_in_words", amount |-> amount, outcome |-> "called"]
WordsReturn(amount, words) ==
    [op |-> "amount_in_words", amount |-> amount, outcome |-> "returned",
     words |-> words]

amount_in_words_call ==
    /\ resp.op = "amount_in_words"
    /\ resp.outcome = "called"
    /\ resp' = WordsReturn(resp.amount, amount_in_words(resp.amount))
    /\ UNCHANGED <<db, inflight>>


\* ------------------------------------------------------------------ inputs
Codes == {"A", "B"}
Phones == {"900"}
Names == {"n1"}
PidInputs == 1..MaxProducts
PidLists == SeqsUpTo(PidInputs, MaxPids)
OrderIds == 1..MaxOrders
BookingStatuses == {"pending", "approved", "canceled"}
AllStatuses == {"pending", "approved", "delivered", "returned", "completed", "canceled"}
\* one more day than Dates, so that a range can lie strictly inside another
WideDates == 1..(MaxDate + 1)

\* a product code the catalog does not hold yet, in alphabetical order
FreshCodes == {c \in Codes : \A p \in DOMAIN products : products[p].product_code # c}
NextCode == {c \in FreshCodes : c = "A" \/ "A" \notin FreshCodes}

\* Requests of the booking specifications: every date pair (delivery after
\* return included), every product list, no accessories or extra charges.
BookingForms ==
    [customer_name : Names, customer_phone : Phones,
     delivery_date : Dates, return_date : Dates,
     product_ids : PidLists,
     accessory_names : {<<>>}, extra_desc : {<<>>}, extra_amounts : {<<>>}]

\* Requests of the date specification: the wide dates, product 1 alone.
DateForms ==
    [customer_name : Names, customer_phone : Phones,
     delivery_date : WideDates, return_date : WideDates,
     product_ids : {<<1>>},
     accessory_names : {<<>>}, extra_desc : {<<>>}, extra_amounts : {<<>>}]

\* ------------------------------------------------------- specification Spec
\* Bookings: the catalog, create_order and add_products_to_order by staff
\* member 2, update_order_status by the admin.
AddProductStep == \E code \in NextCode : add_product(1, code, 1, 1)
CreateOrderStep == \E f \in BookingForms : create_order(2, f)
AddProductsStep ==
    \E oid \in OrderIds, pids \in PidLists : add_products_to_order(2, oid, pids)
UpdateOrderStatusStep ==
    \E oid \in OrderIds, s \in BookingStatuses : update_order_status(1, oid, s)

Next ==
    \/ AddProductStep
    \/ CreateOrderStep
    \/ AddProductsStep
    \/ UpdateOrderStatusStep

Spec == Init /\ [][Next]_vars

\* --------------------------------------------------- specification SpecEdit
\* Spec with the two edit handlers: edit_order by the admin and
\* staff_edit_order by staff member 2, for requests of at most one product.
EditForms == {f \in BookingForms : Len(f.product_ids) <= 1}

EditOrderStep == \E oid \in OrderIds, f \in EditForms : edit_order(1, oid, f)
StaffEditOrderStep ==
    \E oid \in OrderIds, f \in EditForms : staff_edit_order(2, oid, f)

NextEdit ==
    \/ AddProductStep
    \/ CreateOrderStep
    \/ AddProductsStep
    \/ UpdateOrderStatusStep
    \/ EditOrderStep
    \/ StaffEditOrderStep

SpecEdit == Init /\ [][NextEdit]_vars

\* -------------------------------------------------- specification SpecDates
\* The duplicate-booking check over the wide dates and every status, for
\* requests of product 1.
CreateOrderDatesStep == \E f \in DateForms : create_order(2, f)
AddProductsDatesStep == \E oid \in OrderIds : add_products_to_order(2, oid, <<1>>)
UpdateAnyStatusStep ==
    \E oid \in OrderIds, s \in AllStatuses : update_order_status(1, oid, s)

NextDates ==
    \/ AddProductStep
    \/ CreateOrderDatesStep
    \/ AddProductsDatesStep
    \/ UpdateAnyStatusStep

SpecDates == Init /\ [][NextDates]_vars

\* --------------------------------------------------- specification SpecConc
\* Two create_order requests of staff member 2 running side by side: each
\* request's check and commit are separate steps.
MaxInflight == 2
ConcForms == {f \in BookingForms : Len(f.product_ids) = 1}

CreateOrderCheckStep ==
    \E k \in 1..MaxInflight, f \in ConcForms : create_order_check(k, 2, f)
CreateOrderCommitStep == \E r \in inflight : create_order_commit(r)

NextConc ==
    \/ AddProductStep
    \/ CreateOrderCheckStep
    \/ CreateOrderCommitStep

SpecConc == Init /\ [][NextConc]_vars

\* ------------------------------------------------- specification SpecTotals
\* Prices and totals: products of two prices, edit_product, and requests
\* with accessories and extra charges (a missing amount entry and an empty
\* amount included), for the first MaxPricedOrders orders.
MaxPricedOrders == 1
Prices == {1, 2}
Deposits == {4}
ExtraInputs ==
    { <<<<>>, <<>>>>,                  \* no extra charge
      <<<<"fee">>, <<<<3>>>>>>,        \* one charge of 3
      <<<<"fee">>, <<<<>>>>>>,         \* a description with an empty amount
      <<<<"fee">>, <<>>>> }            \* a description with no amount entry

TotalsForms ==
    {[customer_name |-> "n1", customer_phone |-> "900",
      delivery_date |-> 1, return_date |-> r, product_ids |-> pids,
      accessory_names |-> acc, extra_desc |-> e[1], extra_amounts |-> e[2]] :
        r \in Dates, pids \in PidLists, acc \in {<<>>, <<"belt">>}, e \in ExtraInputs}

AddPricedProductStep ==
    \E code \in NextCode, price \in Prices, dep \in Deposits :
        add_product(1, code, price, dep)
EditProductStep ==
    \E pid \in PidInputs, price \in Prices, dep \in Deposits :
        /\ ProductExists(pid)
        /\ edit_product(1, pid, products[pid].product_code, price, dep)
CreatePricedOrderStep ==
    /\ Len(orders) < MaxPricedOrders
    /\ \E f \in TotalsForms : create_order(2, f)
EditPricedOrderStep == \E oid \in OrderIds, f \in TotalsForms : edit_order(1, oid, f)
StaffEditPricedOrderStep ==
    \E oid \in OrderIds, f \in TotalsForms : staff_edit_order(2, oid, f)

NextTotals ==
    \/ AddPricedProductStep
    \/ EditProductStep
    \/ CreatePricedOrderStep
    \/ EditPricedOrderStep
    \/ StaffEditPricedOrderStep
    \/ AddProductsStep

SpecTotals == Init /\ [][NextTotals]_vars

\* ------------------------------------------------ specification SpecInvoice
\* Invoices: create_order, view_invoice and update_order_status.  init_db
\* runs db.create_all() over whatever database file is there, so the store
\* may start with an order that was saved before invoices were written at
\* creation: that order has no invoice row, the case view_invoice's
\* `if not invoice` branch serves.
LegacyCustomer == [name |-> "n1", phone |-> "900"]
LegacyOrder ==
    [customer_id |-> 1, staff_id |-> 2, delivery_date |-> 1, return_date |-> 1,
     status |-> "pending", total_amount |-> 0,
     items |-> <<>>, accessories |-> <<>>, extra_charges |-> <<>>]

InitInvoice ==
    /\ products = <<>>
    /\ \/ customers = <<>> /\ orders = <<>>
       \/ customers = <<LegacyCustomer>> /\ orders = <<LegacyOrder>>
    /\ invoices = <<>>
    /\ inflight = {}
    /\ resp = Response("init", 1, 0, "ok", {})

InvoiceForms == {f \in BookingForms : f.product_ids = <<>>}

CreateInvoicedOrderStep == \E u \in {1, 2}, f \in InvoiceForms : create_order(u, f)
ViewInvoiceStep == \E u \in {1, 2}, oid \in OrderIds : view_invoice(u, oid)

NextInvoice ==
    \/ CreateInvoicedOrderStep
    \/ ViewInvoiceStep
    \/ UpdateOrderStatusStep

SpecInvoice == InitInvoice /\ [][NextInvoice]_vars

\* ------------------------------------------------- specification SpecStatus
\* The order status: every handler that touches an order, for requests of
\* one day and at most product 1.  The status of update_order_status is a
\* URL path segment, so any text can be asked for: "shipped" stands for the
\* texts that are no status.
StatusInputs == AllStatuses \cup {"shipped"}
StatusForms ==
    {f \in BookingForms :
        /\ f.delivery_date = 1 /\ f.return_date = 1
        /\ f.product_ids \in {<<>>, <<1>>}}

CreateStatusOrderStep == \E f \in StatusForms : create_order(2, f)
EditStatusOrderStep == \E oid \in OrderIds, f \in StatusForms : edit_order(1, oid, f)
StaffEditStatusOrderStep ==
    \E oid \in OrderIds, f \in StatusForms : staff_edit_order(2, oid, f)
UpdateStatusInputStep ==
    \E oid \in OrderIds, s \in StatusInputs : update_order_status(1, oid, s)
ViewStatusInvoiceStep == \E oid \in OrderIds : view_invoice(2, oid)

NextStatus ==
    \/ AddProductStep
    \/ CreateStatusOrderStep
    \/ EditStatusOrderStep
    \/ StaffEditStatusOrderStep
    \/ AddProductsDatesStep
    \/ UpdateStatusInputStep
    \/ ViewStatusInvoiceStep

SpecStatus == Init /\ [][NextStatus]_vars

\* -------------------------------------------------- specification SpecStaff
\* Who may change an order: the admin and two staff members create orders;
\* each of the three asks staff_edit_order and add_products_to_order for
\* every order; the admin sets statuses.  Requests of one day, at most
\* product 1, and two customer names so that an edit shows in the customer.
EditedNames == {"n1", "n2"}
StaffForms ==
    {[f EXCEPT !.customer_name = n] : f \in StatusForms, n \in EditedNames}

CreateOrderByAnyStep == \E u \in Users, f \in StatusForms : create_order(u, f)
StaffEditByAnyStep ==
    \E u \in Users, oid \in OrderIds, f \in StaffForms : staff_edit_order(u, oid, f)
AddProductsByAnyStep ==
    \E u \in Users, oid \in OrderIds : add_products_to_order(u, oid, <<1>>)

NextStaff ==
    \/ AddProductStep
    \/ CreateOrderByAnyStep
    \/ StaffEditByAnyStep
    \/ AddProductsByAnyStep
    \/ UpdateOrderStatusStep

SpecStaff == Init /\ [][NextStaff]_vars

\* ---------------------------------------------- specification SpecCustomers
\* The customer table: create_order and staff_edit_order by staff member 2
\* and edit_order and update_order_status by the admin, for requests of two
\* phones and two names without products.
CustomerPhones == {"900", "901"}
CustomerForms ==
    {[f EXCEPT !.customer_name = n, !.customer_phone = ph] :
        f \in {g \in StatusForms : g.product_ids = <<>>},
        n \in EditedNames, ph \in CustomerPhones}

CreateCustomerOrderStep == \E f \in CustomerForms : create_order(2, f)
EditCustomerOrderStep ==
    \E oid \in OrderIds, f \in CustomerForms : edit_order(1, oid, f)
StaffEditCustomerOrderStep ==
    \E oid \in OrderIds, f \in CustomerForms : staff_edit_order(2, oid, f)

NextCustomers ==
    \/ CreateCustomerOrderStep
    \/ EditCustomerOrderStep
    \/ StaffEditCustomerOrderStep
    \/ UpdateOrderStatusStep

SpecCustomers == Init /\ [][NextCustomers]_vars

\* ------------------------------------------------- specification SpecAtomic
\* create_order statement by statement, one request at a time, each
\* statement either succeeding or raising; requests with two names, at most
\* product 1 and the extra-charge inputs of SpecTotals.
AtomicForms ==
    {[f EXCEPT !.customer_name = n, !.extra_desc = e[1], !.extra_amounts = e[2]] :
        f \in StatusForms, n \in EditedNames, e \in ExtraInputs}

CreateOrderOpenStep == \E f \in AtomicForms : create_order_open(2, f)
CreateOrderWriteStep == \E r \in inflight : create_order_step(r)
CreateOrderFinishStep == \E r \in inflight : create_order_finish(r)
CreateOrderRaiseStep == \E r \in inflight : create_order_raise(r)

NextAtomic ==
    \/ AddProductStep
    \/ CreateOrderOpenStep
    \/ CreateOrderWriteStep
    \/ CreateOrderFinishStep
    \/ CreateOrderRaiseStep

SpecAtomic == Init /\ [][NextAtomic]_vars

\* -------------------------------------------------- specification SpecWords
\* amount_in_words on its own: every amount of 0..MaxDenseRupees rupees,
\* and amounts put together from values of the Crore, Lakh, Thousand and
\* hundreds groups, each with and without paise.
MaxDenseRupees == 1100
CroreInputs == {0, 1, 21, 100}
LakhInputs == {0, 1, 10, 19, 20, 45, 99}
ThousandInputs == {0, 1, 10, 19, 20, 45, 99}
HundredInputs == {0, 1, 9, 10, 19, 20, 21, 99, 100, 101, 110, 119, 120, 500, 999}
RupeeInputs ==
    (0..MaxDenseRupees) \cup {1500, 100000}
    \cup {c * 10000000 + l * 100000 + t * 1000 + h :
            c \in CroreInputs, l \in LakhInputs, t \in ThousandInputs,
            h \in HundredInputs}
PaiseInputs == {0, 50}
AmountInputs == [rupees : RupeeInputs, paise : PaiseInputs]

InitWords ==
    /\ products = <<>>
    /\ customers = <<>>
    /\ orders = <<>>
    /\ invoices = <<>>
    /\ inflight = {}
    /\ resp \in {WordsCall(a) : a \in AmountInputs}

NextWords == amount_in_words_call

SpecWords == InitWords /\ [][NextWords]_vars

\* ------------------------------------------------- specification SpecActive
\* Deactivated products: toggle_product by the admin next to the four
\* handlers that write line items, for requests of one day and at most
\* product 1.
ToggleProductStep == \E pid \in PidInputs : toggle_product(1, pid)

NextActive ==
    \/ AddProductStep
    \/ ToggleProductStep
    \/ CreateStatusOrderStep
    \/ EditStatusOrderStep
    \/ StaffEditStatusOrderStep
    \/ AddProductsDatesStep
    \/ UpdateOrderStatusStep

SpecActive == Init /\ [][NextActive]_vars

\* -------------------------------------------------- specification SpecAvail
\* check_availability by staff member 2 for the codes of the catalog and an
\* unknown one, over orders of at most one product, every date pair and
\* every status.
CodeInputs == Codes \cup {"Z"}

CreateSmallOrderStep == \E f \in EditForms : create_order(2, f)
CheckAvailabilityStep == \E code \in CodeInputs : check_availability(2, code)

NextAvail ==
    \/ AddProductStep
    \/ CreateSmallOrderStep
    \/ UpdateAnyStatusStep
    \/ CheckAvailabilityStep

SpecAvail == Init /\ [][NextAvail]_vars

\* ------------------------------------------------- specification SpecSigned
\* Extra charges of either sign: float(extra_amounts[i]) takes "-3" as it
\* takes "3".  create_order by staff member 2 and the two edit handlers, for
\* requests of one day, at most product 1 and at most one extra charge.
SignedExtraInputs ==
    { <<<<>>, <<>>>>,                  \* no extra charge
      <<<<"fee">>, <<<<3>>>>>>,        \* one charge of 3
      <<<<"fee">>, <<<<-3>>>>>> }      \* one charge of -3
SignedForms ==
    {[f EXCEPT !.extra_desc = e[1], !.extra_amounts = e[2]] :
        f \in StatusForms, e \in SignedExtraInputs}

CreateSignedOrderStep == \E f \in SignedForms : create_order(2, f)
EditSignedOrderStep == \E oid \in OrderIds, f \in SignedForms : edit_order(1, oid, f)
StaffEditSignedOrderStep ==
    \E oid \in OrderIds, f \in SignedForms : staff_edit_order(2, oid, f)

NextSigned ==
    \/ AddProductStep
    \/ CreateSignedOrderStep
    \/ EditSignedOrderStep
    \/ StaffEditSignedOrderStep
    \/ ViewStatusInvoiceStep

SpecSigned == Init /\ [][NextSigned]_vars

\* ================================================================== claims
Active(o) == orders[o].status \in {"pending", "approved"}

\* the inclusive ranges [D, R] and [d, r] share a day
Intersect(D, R, d, r) == \E x \in WideDates : D <= x /\ x <= R /\ d <= x /\ x <= r

OrdersIntersect(a, b) ==
    Intersect(orders[a].delivery_date, orders[a].return_date,
              orders[b].delivery_date, orders[b].return_date)

SharedProduct(a, b) == \E p \in PidInputs : HoldsProduct(a, p) /\ HoldsProduct(b, p)

OrderOk(op) == resp.op = op /\ resp.outcome = "ok"

\* C1: no product is held by two distinct orders that are both pending or
\* approved and whose inclusive date ranges intersect.
C1_NoDoubleBooking ==
    \A a, b \in DOMAIN orders :
        (a # b /\ Active(a) /\ Active(b) /\ SharedProduct(a, b)) => ~OrdersIntersect(a, b)

\* the condition of C2 between an existing order and a request
ClaimedConflict(o, pid, f) ==
    /\ Active(o)
    /\ HoldsProduct(o, pid)
    /\ orders[o].delivery_date <= f.return_date
    /\ f.delivery_date <= orders[o].return_date

\* indices of a request's product list that some order blocks as C2 says
ClaimedHits(f) ==
    {i \in DOMAIN f.product_ids :
        \E o \in DOMAIN orders : ClaimedConflict(o, f.product_ids[i], f)}

\* C2 as stated: whenever a pending or approved order holds a requested
\* product with d1 <= r2 and d2 <= r1, create_order rejects the request
\* naming that product, and a rejected request leaves the store as it was.
C2_RejectedNamingThatProduct ==
    /\ [](\A f \in BookingForms : \A i \in ClaimedHits(f) :
              FirstConflict(f.product_ids, f.delivery_date, f.return_date)
                  = f.product_ids[i])
    /\ [][(resp'.op = "create_order" /\ resp'.outcome = "conflict") => UNCHANGED db]_vars

\* C2 amended: whenever a pending or approved order holds a requested
\* product with d1 <= r2 and d2 <= r1, create_order rejects the request and
\* leaves the store as it was; the conflict names one product: that product,
\* or one earlier in the request's list that a pending or approved order
\* also holds.
C2_RejectedNamingFirstBooked ==
    /\ [](\A f \in BookingForms : \A i \in ClaimedHits(f) :
              LET c == FirstConflict(f.product_ids, f.delivery_date, f.return_date)
              IN /\ c # 0
                 /\ \E j \in 1..i : f.product_ids[j] = c
                 /\ \E o \in DOMAIN orders : Active(o) /\ HoldsProduct(o, c))
    /\ [][(resp'.op = "create_order" /\ resp'.outcome = "conflict") =>
              /\ UNCHANGED db
              /\ \E p \in PidInputs : resp'.flashed = {p}]_vars

\* a create_order was just rejected naming a product an active order holds
C2_Witness ==
    /\ resp.op = "create_order" /\ resp.outcome = "conflict"
    /\ \E p \in resp.flashed : \E o \in DOMAIN orders : Active(o) /\ HoldsProduct(o, p)
    /\ Len(orders) = 1 /\ Len(customers) = 1 /\ Len(invoices) = 1

ValidRange(d, r) == d <= r

\* C3: for an existing range [d1, r1] and a requested range [d2, r2], both
\* with delivery <= return, the date condition of the duplicate-booking
\* query is true exactly when d1 <= r2 and d2 <= r1; so an order's row is
\* matched exactly when it is active, holds the product and meets that, and
\* a request that intersects no active order of the product passes the check.
C3_DateCondIsInclusiveOverlap ==
    /\ \A d1, r1, d2, r2 \in WideDates :
          (ValidRange(d1, r1) /\ ValidRange(d2, r2)) =>
              (DateCond(d1, r1, d2, r2) <=> (d1 <= r2 /\ d2 <= r1))
    /\ \A f \in DateForms :
          (/\ ValidRange(f.delivery_date, f.return_date)
           /\ \A o \in DOMAIN orders :
                 ValidRange(orders[o].delivery_date, orders[o].return_date))
          => /\ \A o \in DOMAIN orders :
                    o \in Booked(1, f.delivery_date, f.return_date)
                    <=> /\ Active(o) /\ HoldsProduct(o, 1)
                        /\ orders[o].delivery_date <= f.return_date
                        /\ f.delivery_date <= orders[o].return_date
             /\ (FirstConflict(f.product_ids, f.delivery_date, f.return_date) = 0)
                    <=> \A o \in DOMAIN orders :
                           (Active(o) /\ HoldsProduct(o, 1)) =>
                               ~Intersect(orders[o].delivery_date, orders[o].return_date,
                                          f.delivery_date, f.return_date)

\* a create_order was rejected while the only order is active and holds
\* product 1 for a single day that is neither the first nor the last date
C3_Witness ==
    /\ resp.op = "create_order" /\ resp.outcome = "conflict"
    /\ Len(orders) = 1
    /\ \E o \in DOMAIN orders :
          /\ Active(o) /\ HoldsProduct(o, 1)
          /\ orders[o].delivery_date = orders[o].return_date
          /\ 1 < orders[o].delivery_date /\ orders[o].return_date < MaxDate + 1

\* C4: an order whose status is canceled, returned or completed never makes
\* create_order or add_products_to_order report a conflict: every product a
\* request would be refused for, and every product an "already booked"
\* message names, is held by a pending or approved order.
C4_ClosedOrdersNeverBlock ==
    /\ \A f \in DateForms :
          LET c == FirstConflict(f.product_ids, f.delivery_date, f.return_date)
          IN c # 0 => \E o \in DOMAIN orders : Active(o) /\ HoldsProduct(o, c)
    /\ \A oid \in DOMAIN orders :
          LET res == AddLoop(oid, <<1>>, orders[oid].items, orders[oid].total_amount)
          IN \A p \in res.must \cup res.may :
                \E o \in DOMAIN orders : o # oid /\ Active(o) /\ HoldsProduct(o, p)
    /\ (resp.op \in {"create_order", "add_products_to_order"}) =>
          \A p \in resp.flashed :
              \E o \in DOMAIN orders : Active(o) /\ HoldsProduct(o, p)

\* create_order succeeded for product 1 while a canceled, a returned or a
\* completed order holds product 1 for the same dates
C4_Witness ==
    /\ OrderOk("create_order")
    /\ HoldsProduct(resp.oid, 1)
    /\ ValidRange(orders[resp.oid].delivery_date, orders[resp.oid].return_date)
    /\ \E o \in DOMAIN orders :
          /\ orders[o].status \in {"canceled", "returned", "completed"}
          /\ HoldsProduct(o, 1)
          /\ orders[o].delivery_date = orders[resp.oid].delivery_date
          /\ orders[o].return_date = orders[resp.oid].return_date

\* C5: every stored order has delivery_date <= return_date.
C5_DeliveryNotAfterReturn ==
    \A o \in DOMAIN orders : orders[o].delivery_date <= orders[o].return_date

OrderHandlers == {"create_order", "edit_order", "staff_edit_order", "add_products_to_order"}

\* C6: every order's total_amount is the sum of the prices of its line
\* items plus the sum of the amounts of its extra charges; its accessories
\* add nothing.
C6_TotalIsItemsPlusExtras ==
    \A o \in DOMAIN orders :
        orders[o].total_amount =
            SumSeq([i \in DOMAIN orders[o].items |-> orders[o].items[i].price])
            + SumSeq([i \in DOMAIN orders[o].extra_charges |->
                         orders[o].extra_charges[i].amount])

\* add_products_to_order just added to an order that has two line items, an
\* accessory and an extra charge
C6_Witness ==
    /\ OrderOk("add_products_to_order")
    /\ Len(orders[resp.oid].items) >= 2
    /\ orders[resp.oid].accessories # <<>>
    /\ orders[resp.oid].extra_charges # <<>>
    /\ orders[resp.oid].total_amount > 3

\* C7: every line item an accepted create_order, edit_order,
\* staff_edit_order or add_products_to_order creates carries the product's
\* rental_price of that moment, whatever the order's dates and the deposit.
C7_LineItemPriceIsRentalPrice ==
    [][(resp'.op \in OrderHandlers /\ resp'.outcome = "ok") =>
          LET o == resp'.oid
              kept == IF resp'.op = "add_products_to_order"
                      THEN Len(orders[o].items) ELSE 0
          IN \A i \in (kept + 1)..Len(orders'[o].items) :
                orders'[o].items[i].price
                    = products[orders'[o].items[i].product_id].rental_price
      ]_vars

\* add_products_to_order just added a line item at the rental price to an
\* order of more than one day, for a product with a deposit
C7_Witness ==
    /\ OrderOk("add_products_to_order")
    /\ orders[resp.oid].delivery_date < orders[resp.oid].return_date
    /\ \E i \in DOMAIN orders[resp.oid].items :
          LET it == orders[resp.oid].items[i]
          IN /\ i = Len(orders[resp.oid].items)
             /\ it.price = products[it.product_id].rental_price
             /\ products[it.product_id].deposit_amount > 0

ProductIds(items) == [i \in DOMAIN items |-> items[i].product_id]

\* C8: while an order keeps its products, its recorded prices do not change;
\* and a step that keeps its products and its extra charges keeps its
\* total_amount.
C8_PriceSnapshotKept ==
    [][\A o \in DOMAIN orders :
          ProductIds(orders'[o].items) = ProductIds(orders[o].items) =>
              /\ orders'[o].items = orders[o].items
              /\ orders'[o].extra_charges = orders[o].extra_charges =>
                    orders'[o].total_amount = orders[o].total_amount
      ]_vars

\* C9: two create_order requests for the same product and intersecting
\* ranges are never both committed.
C9_NoConcurrentDoubleBooking ==
    \A a, b \in DOMAIN orders :
        (/\ a # b /\ Active(a) /\ Active(b) /\ SharedProduct(a, b)
         /\ ValidRange(orders[a].delivery_date, orders[a].return_date)
         /\ ValidRange(orders[b].delivery_date, orders[b].return_date))
        => ~OrdersIntersect(a, b)

\* C10: an accepted edit_order or staff_edit_order never leaves the edited
\* order, pending or approved, intersecting another pending or approved
\* order on a shared product.
C10_EditRevalidatesAvailability ==
    (OrderOk("edit_order") \/ OrderOk("staff_edit_order")) =>
        \A b \in DOMAIN orders :
            (b # resp.oid /\ Active(resp.oid) /\ Active(b) /\ SharedProduct(resp.oid, b))
            => ~OrdersIntersect(resp.oid, b)

\* C11: an add_products_to_order request that reports a product as already
\* booked (a row of another pending or approved order matched the filter)
\* adds no line item to the order and leaves its total_amount as it was.
C11_ConflictBlocksWholeRequest ==
    [][(resp'.op = "add_products_to_order" /\ resp'.flashed # {}) =>
          /\ orders'[resp'.oid].items = orders[resp'.oid].items
          /\ orders'[resp'.oid].total_amount = orders[resp'.oid].total_amount
      ]_vars

InvoicesOf(oid) == {i \in DOMAIN invoices : invoices[i].order_id = oid}

ViewOk == resp.op = "view_invoice" /\ resp.outcome = "ok"

\* C12: every order has at most one invoice; a view_invoice of an order
\* without an invoice appends one invoice for it and shows its number; a
\* view_invoice of an order that has an invoice shows that invoice's number
\* and creates no invoice row; no step removes or rewrites an invoice row.
C12_OneInvoicePerOrderIdempotentView ==
    /\ [](\A o \in DOMAIN orders : Cardinality(InvoicesOf(o)) <= 1)
    /\ [][/\ \A i \in DOMAIN invoices :
                i \in DOMAIN invoices' /\ invoices'[i] = invoices[i]
          /\ (resp'.op = "view_invoice" /\ resp'.outcome = "ok") =>
                LET o == resp'.oid
                IN IF InvoicesOf(o) # {}
                   THEN /\ invoices' = invoices
                        /\ \E i \in InvoicesOf(o) :
                              resp'.invoice_number = invoices[i].invoice_number
                   ELSE /\ Len(invoices') = Len(invoices) + 1
                        /\ invoices'[Len(invoices')].order_id = o
                        /\ invoices'[Len(invoices')].invoice_number
                              = resp'.invoice_number
         ]_vars

\* a view showed the invoice that an earlier view_invoice created for
\* order 1, which was stored without one: the store's other invoice is the
\* one create_order wrote for order 2
C12_Witness ==
    /\ ViewOk /\ resp.oid = 1
    /\ Len(orders) = 2 /\ Len(invoices) = 2
    /\ invoices[1].order_id = 2
    /\ invoices[2].order_id = 1
    /\ resp.invoice_number = invoices[2].invoice_number

\* C13: the k-th invoice ever created carries number k, so the numbers are
\* pairwise distinct and increase in creation order; invoices are only ever
\* appended, also when orders are canceled.
C13_InvoiceNumbersSequential ==
    /\ [](\A i \in DOMAIN invoices : invoices[i].invoice_number = i)
    /\ [][\A i \in DOMAIN invoices :
             i \in DOMAIN invoices' /\ invoices'[i] = invoices[i]]_vars

\* create_order wrote the second invoice after the first order was canceled
C13_Witness ==
    /\ OrderOk("create_order")
    /\ Len(invoices) = 2
    /\ orders[1].status = "canceled"
    /\ invoices[1].invoice_number = 1 /\ invoices[1].order_id = 1
    /\ invoices[2].invoice_number = 2 /\ invoices[2].order_id = 2

\* C14: every order is created with status pending, by create_order, and
\* an order's status changes only in an update_order_status step for that
\* order: create_order, edit_order, staff_edit_order, add_products_to_order
\* and view_invoice leave the status of every existing order as it was.
C14_StatusChangesOnlyByStatusUpdate ==
    [][/\ \A o \in DOMAIN orders' \ DOMAIN orders :
             orders'[o].status = "pending" /\ resp'.op = "create_order"
       /\ \A o \in DOMAIN orders :
             /\ o \in DOMAIN orders'
             /\ orders'[o].status # orders[o].status =>
                   resp'.op = "update_order_status" /\ resp'.oid = o
      ]_vars

\* an edit_order was accepted for an approved order, which is still approved
C14_Witness ==
    /\ OrderOk("edit_order")
    /\ orders[resp.oid].status = "approved"
    /\ orders[resp.oid].items # <<>>

TransitionGraph ==
    { <<"pending", "approved">>, <<"pending", "canceled">>,
      <<"approved", "delivered">>, <<"approved", "canceled">>,
      <<"delivered", "returned">>, <<"returned", "completed">> }

\* C15 as stated: every status change of an order is an edge of the graph
\* pending -> {approved, canceled}, approved -> {delivered, canceled},
\* delivered -> {returned}, returned -> {completed}; so a canceled or
\* completed order keeps its status.
C15_StatusFollowsGraph ==
    [][\A o \in DOMAIN orders :
          orders'[o].status # orders[o].status =>
              <<orders[o].status, orders'[o].status>> \in TransitionGraph]_vars

\* C15 amended: an order's status changes only in an accepted
\* update_order_status request of an admin for that order, and such a
\* request is never refused: from every status, canceled and completed
\* included, the order can be set to every status asked for.
C15_AnyStatusToAnyStatus ==
    /\ [](\A o \in DOMAIN orders : \A s \in AllStatuses :
              ENABLED (update_order_status(1, o, s) /\ orders'[o].status = s))
    /\ [][\A o \in DOMAIN orders :
             orders'[o].status # orders[o].status =>
                 /\ resp'.op = "update_order_status" /\ resp'.outcome = "ok"
                 /\ Role[resp'.user] = "admin" /\ resp'.oid = o]_vars

\* update_order_status made an order pending or approved again while another
\* pending or approved order holds the same product on a shared day: that
\* order was booked while this one was canceled, returned or completed
C15_Witness ==
    /\ OrderOk("update_order_status")
    /\ Active(resp.oid)
    /\ \E b \in DOMAIN orders :
          /\ b # resp.oid /\ Active(b)
          /\ SharedProduct(resp.oid, b) /\ OrdersIntersect(resp.oid, b)

\* C16: every order's status is one of pending, approved, delivered,
\* returned, completed, canceled.
C16_StatusInDomain ==
    \A o \in DOMAIN orders : orders[o].status \in AllStatuses

StaffOps == {"staff_edit_order", "add_products_to_order"}

\* the order exists, was created by u and is pending
OwnPending(u, o) ==
    /\ o \in DOMAIN orders
    /\ orders[o].staff_id = u
    /\ orders[o].status = "pending"

\* C17: a staff_edit_order or add_products_to_order request of a staff
\* member changes an order (the row and its children) only if it is the
\* order addressed, created by the requester and pending; for any other
\* order addressed the request is rejected and the whole store (orders,
\* children, customers, totals) is as before.
C17_StaffOnlyOwnPendingOrders ==
    [][(resp'.op \in StaffOps /\ Role[resp'.user] = "staff") =>
          /\ \A x \in DOMAIN orders :
                (x \notin DOMAIN orders' \/ orders'[x] # orders[x]) =>
                    x = resp'.oid /\ OwnPending(resp'.user, x)
          /\ DOMAIN orders' = DOMAIN orders
          /\ ~OwnPending(resp'.user, resp'.oid) =>
                /\ resp'.outcome \in {"forbidden", "not_found"}
                /\ UNCHANGED db
      ]_vars

\* staff member 3 was refused on a pending order of staff member 2 that
\* holds a line item
C17_Witness ==
    /\ resp.op \in StaffOps /\ resp.outcome = "forbidden" /\ resp.user = 3
    /\ orders[resp.oid].staff_id = 2
    /\ orders[resp.oid].status = "pending"
    /\ orders[resp.oid].items # <<>>

\* C19: no two customer rows have the same phone.
C19_PhoneUnique ==
    \A a, b \in DOMAIN customers :
        customers[a].phone = customers[b].phone => a = b

\* C18: create_order is atomic.  No step that leaves a request in flight,
\* and no step in which a request fails, changes a committed customer,
\* order or invoice row; the committed tables change only in the commit of
\* an accepted request, which adds the order with its children and total
\* and its invoice at once; so every committed order has its customer row
\* and its invoice, and its total is that of its children.
C18_CreateOrderAtomic ==
    /\ [](\A o \in DOMAIN orders :
              /\ orders[o].customer_id \in DOMAIN customers
              /\ InvoicesOf(o) # {}
              /\ orders[o].total_amount
                     = OrderTotal(orders[o].items, orders[o].extra_charges))
    /\ [][/\ (inflight' # {} \/ (resp'.op = "create_order" /\ resp'.outcome # "ok"))
                => UNCHANGED <<customers, orders, invoices>>
          /\ <<customers, orders, invoices>>' # <<customers, orders, invoices>>
                => /\ resp'.op = "create_order" /\ resp'.outcome = "ok"
                   /\ Len(orders') = Len(orders) + 1
                   /\ Len(invoices') = Len(invoices) + 1
         ]_vars

\* a second request raised at its commit, after every write: the customer
\* row, the order and the invoice of the first request are all there is
C18_Witness ==
    /\ resp.op = "create_order" /\ resp.outcome = "error"
    /\ resp.at = "commit"
    /\ customers = <<[name |-> "n1", phone |-> "900"]>>
    /\ Len(orders) = 1 /\ Len(invoices) = 1

\* the request names a product id the catalog does not hold
NamesUnknownProduct(pids) ==
    \E i \in DOMAIN pids : pids[i] # 0 /\ ~ProductExists(pids[i])

\* C20: a create_order or add_products_to_order request that names a
\* product id that does not exist is never accepted.
C20_UnknownProductRejected ==
    /\ \A f \in BookingForms :
          NamesUnknownProduct(f.product_ids) =>
              ~ENABLED (create_order(2, f) /\ resp'.outcome = "ok")
    /\ \A oid \in DOMAIN orders : \A pids \in PidLists :
          NamesUnknownProduct(pids) =>
              ~ENABLED (add_products_to_order(2, oid, pids) /\ resp'.outcome = "ok")

\* the words of 0..99 in the reference rendering
TwoDigitWords(k) ==
    IF k = 0 THEN <<>>
    ELSE IF k < 20 THEN <<ones[k]>>
    ELSE <<tens[k \div 10]>> \o (IF k % 10 = 0 THEN <<>> ELSE <<ones[k % 10]>>)

\* The words of n > 0 in the Indian system: the number of crores (10^7)
\* followed by "Crore", the lakhs (10^5) of the rest followed by "Lakh", its
\* thousands followed by "Thousand", its hundreds digit followed by
\* "Hundred", and its last two digits; a group that is 0 is left out.
RECURSIVE IndianWords(_)
IndianWords(n) ==
    LET crore == n \div 10000000
        lakh == (n \div 100000) % 100
        thousand == (n \div 1000) % 100
        hundred == (n \div 100) % 10
    IN (IF crore = 0 THEN <<>> ELSE IndianWords(crore) \o <<"Crore">>)
       \o (IF lakh = 0 THEN <<>> ELSE TwoDigitWords(lakh) \o <<"Lakh">>)
       \o (IF thousand = 0 THEN <<>> ELSE TwoDigitWords(thousand) \o <<"Thousand">>)
       \o (IF hundred = 0 THEN <<>> ELSE <<ones[hundred], "Hundred">>)
       \o TwoDigitWords(n % 100)

\* words joined by single blanks, none in front and none behind
RECURSIVE JoinWords(_)
JoinWords(ws) ==
    IF ws = <<>> THEN <<>>
    ELSE IF Len(ws) = 1 THEN ws
    ELSE <<Head(ws), " ">> \o JoinWords(Tail(ws))

ReferenceWords(n) ==
    JoinWords((IF n = 0 THEN <<"Zero">> ELSE IndianWords(n)) \o <<"Rupees", "Only">>)

Rupees(n) == [rupees |-> n, paise |-> 0]

WordsReturned == resp.op = "amount_in_words" /\ resp.outcome = "returned"

\* C21: for a whole number of rupees n, amount_in_words(n) is the reference
\* Indian-system rendering of n followed by "Rupees Only", its words
\* separated by single blanks with none in front or behind; and 0, 100, 1500
\* and 100000 give "Zero Rupees Only", "One Hundred Rupees Only", "One
\* Thousand Five Hundred Rupees Only" and "One Lakh Rupees Only".
C21_AmountInWordsIsIndianRendering ==
    /\ (WordsReturned /\ resp.amount.paise = 0) =>
          resp.words = ReferenceWords(resp.amount.rupees)
    /\ amount_in_words(Rupees(0)) = <<"Zero", " ", "Rupees", " ", "Only">>
    /\ amount_in_words(Rupees(100)) = <<"One", " ", "Hundred", " ", "Rupees", " ", "Only">>
    /\ amount_in_words(Rupees(1500))
          = <<"One", " ", "Thousand", " ", "Five", " ", "Hundred", " ",
              "Rupees", " ", "Only">>
    /\ amount_in_words(Rupees(100000)) = <<"One", " ", "Lakh", " ", "Rupees", " ", "Only">>

\* amount_in_words returned for 21 crore 45 lakh 19 thousand 120 rupees
C21_Witness ==
    /\ WordsReturned
    /\ resp.amount = Rupees(214519120)
    /\ resp.words =
          <<"Twenty", " ", "One", " ", "Crore", " ", "Forty", " ", "Five", " ",
            "Lakh", " ", "Nineteen", " ", "Thousand", " ", "One", " ", "Hundred",
            " ", "Twenty", " ", "Rupees", " ", "Only">>

\* C22: the paise never change the output: amount_in_words of an amount is
\* amount_in_words of its whole rupees.
C22_PaiseNeverChangeOutput ==
    WordsReturned => resp.words = amount_in_words(Rupees(resp.amount.rupees))

\* the submitted product ids that are ids of existing products, in order
RECURSIVE SubmittedProducts(_)
SubmittedProducts(pids) ==
    IF pids = <<>> THEN <<>>
    ELSE (IF Head(pids) \in DOMAIN products THEN <<Head(pids)>> ELSE <<>>)
            \o SubmittedProducts(Tail(pids))

\* the submitted accessory names that are not empty, in order
RECURSIVE SubmittedAccessories(_)
SubmittedAccessories(names) ==
    IF names = <<>> THEN <<>>
    ELSE (IF Head(names) = "" THEN <<>> ELSE <<Head(names)>>)
            \o SubmittedAccessories(Tail(names))

\* the submitted (description, amount) pairs with a description and an
\* amount, from position i on
RECURSIVE SubmittedExtras(_, _)
SubmittedExtras(f, i) ==
    IF i > Len(f.extra_desc) THEN <<>>
    ELSE (IF f.extra_desc[i] # "" /\ i <= Len(f.extra_amounts)
             /\ f.extra_amounts[i] # <<>>
          THEN <<<<f.extra_desc[i], f.extra_amounts[i][1]>>>> ELSE <<>>)
            \o SubmittedExtras(f, i + 1)

\* the children of order row o are exactly those the lists of f ask for
ChildrenBuiltFrom(o, f) ==
    /\ [i \in DOMAIN o.items |-> o.items[i].product_id] = SubmittedProducts(f.product_ids)
    /\ o.accessories = SubmittedAccessories(f.accessory_names)
    /\ [i \in DOMAIN o.extra_charges |->
           <<o.extra_charges[i].description, o.extra_charges[i].amount>>]
          = SubmittedExtras(f, 1)

\* C23: no accepted edit_order or staff_edit_order leaves the order with
\* children other than those built from the submitted lists: one line item
\* per submitted id of an existing product, one accessory per non-empty
\* name, one extra charge per non-empty description with an amount, and no
\* child row from before the edit.
C23_EditReplacesChildren ==
    \A oid \in DOMAIN orders : \A f \in TotalsForms :
        /\ ~ENABLED (/\ edit_order(1, oid, f)
                     /\ resp'.outcome = "ok"
                     /\ ~ChildrenBuiltFrom(orders'[oid], f))
        /\ ~ENABLED (/\ staff_edit_order(2, oid, f)
                     /\ resp'.outcome = "ok"
                     /\ ~ChildrenBuiltFrom(orders'[oid], f))

\* an accepted edit left the order with product 2 alone, no accessory and
\* no extra charge, while both products are in the catalog
C23_Witness ==
    /\ (OrderOk("edit_order") \/ OrderOk("staff_edit_order"))
    /\ Len(products) = 2
    /\ [i \in DOMAIN orders[resp.oid].items |-> orders[resp.oid].items[i].product_id]
          = <<2>>
    /\ orders[resp.oid].accessories = <<>>
    /\ orders[resp.oid].extra_charges = <<>>

\* C24: create_order, edit_order, staff_edit_order and
\* add_products_to_order never create a line item for a product that is
\* deactivated at that time (an edit creates all the items it leaves, an
\* add those behind the ones the order had), and toggle_product leaves
\* every order with its line items and total_amount as it was.
C24_InactiveProductNotBooked ==
    [][/\ (resp'.op \in OrderHandlers /\ resp'.outcome = "ok") =>
             LET o == resp'.oid
                 kept == IF resp'.op = "add_products_to_order"
                         THEN Len(orders[o].items) ELSE 0
             IN \A i \in (kept + 1)..Len(orders'[o].items) :
                   products[orders'[o].items[i].product_id].is_active
       /\ resp'.op = "toggle_product" => UNCHANGED orders
      ]_vars

AvailabilityAnswered == resp.op = "check_availability" /\ resp.found

\* C25: for an existing product check_availability answers is_available =
\* true exactly when no pending or approved order holds a line item of the
\* product, whatever the orders' dates; its bookings are exactly the
\* pending or approved orders that hold the product, with their dates and
\* status; and the request changes no stored row.
C25_AvailabilityIgnoresDates ==
    /\ [](AvailabilityAnswered =>
             /\ resp.is_available <=>
                   ~\E o \in DOMAIN orders : Active(o) /\ HoldsProduct(o, resp.product)
             /\ {b.order_id : b \in resp.bookings}
                   = {o \in DOMAIN orders : Active(o) /\ HoldsProduct(o, resp.product)}
             /\ \A b \in resp.bookings :
                   /\ b.delivery_date = orders[b.order_id].delivery_date
                   /\ b.return_date = orders[b.order_id].return_date
                   /\ b.status = orders[b.order_id].status)
    /\ [][resp'.op = "check_availability" => UNCHANGED db]_vars

\* check_availability answered "not available" with one booking, of the
\* last day, while a canceled order holds the same product on the first day
C25_Witness ==
    /\ AvailabilityAnswered
    /\ ~resp.is_available
    /\ Cardinality(resp.bookings) = 1
    /\ \A b \in resp.bookings : b.delivery_date = MaxDate /\ b.return_date = MaxDate
    /\ \E o \in DOMAIN orders :
          /\ orders[o].status = "canceled"
          /\ HoldsProduct(o, resp.product)
          /\ orders[o].delivery_date = 1

\* C26: every order's total_amount is non-negative.
C26_TotalNonNegative ==
    \A o \in DOMAIN orders : orders[o].total_amount >= 0

====
